---- MODULE Spec2Model ----
(***************************************************************************)
(* WebSocket frame decoder of src/src/frame.rs: Frame::parse over a byte   *)
(* cursor and a per-connection FragmentedMessage tracker.                  *)
(*                                                                         *)
(* Bytes are naturals in 0..255, a buffer is a sequence of bytes, the      *)
(* cursor is the buffer plus the number of bytes already consumed.         *)
(* usize is taken to be 64 bits wide (get_u64(..) as usize is lossless).   *)
(***************************************************************************)
EXTENDS Naturals, Sequences, FiniteSets

(***************************************************************************)
(* Bit operations on bytes                                                 *)
(***************************************************************************)
RECURSIVE BitXor(_, _)
BitXor(a, b) ==
    IF a = 0 THEN b
    ELSE IF b = 0 THEN a
    ELSE (((a % 2) + (b % 2)) % 2) + (2 * BitXor(a \div 2, b \div 2))

\* f_byte & 0b1000_0000 != 0, s_byte & 0b1000_0000 != 0
HighBit(byte) == (byte \div 128) % 2 = 1

\* f_byte & 0b0111_0000 != 0
RsvBits(byte) == (byte \div 16) % 8 # 0

\* f_byte & 0b0000_1111
LowNibble(byte) == byte % 16

\* s_byte & 0b0111_1111
Low7(byte) == byte % 128

(***************************************************************************)
(* String::from_utf8 / str::from_utf8: the bytes are well-formed UTF-8     *)
(* (no overlong forms, no surrogates, nothing above U+10FFFF).             *)
(***************************************************************************)
IsCont(b) == b >= 128 /\ b <= 191

RECURSIVE ValidUtf8From(_, _)
ValidUtf8From(s, i) ==
    LET n == Len(s)
        b == s[i]
        c(k) == i + k <= n /\ IsCont(s[i + k])
        in2(k, lo, hi) == i + k <= n /\ s[i + k] >= lo /\ s[i + k] <= hi
        \* the first byte after i that is not ASCII (n + 1 when there is none)
        rest == {k \in (i + 1)..n : s[k] >= 128}
        nonAscii == IF rest = {} THEN n + 1 ELSE CHOOSE j \in rest : \A k \in rest : j <= k
    IN  IF i > n THEN TRUE
        ELSE IF b < 128 THEN ValidUtf8From(s, nonAscii)
        ELSE IF b >= 194 /\ b <= 223 THEN c(1) /\ ValidUtf8From(s, i + 2)
        ELSE IF b = 224 THEN in2(1, 160, 191) /\ c(2) /\ ValidUtf8From(s, i + 3)
        ELSE IF (b >= 225 /\ b <= 236) \/ b = 238 \/ b = 239
             THEN c(1) /\ c(2) /\ ValidUtf8From(s, i + 3)
        ELSE IF b = 237 THEN in2(1, 128, 159) /\ c(2) /\ ValidUtf8From(s, i + 3)
        ELSE IF b = 240 THEN in2(1, 144, 191) /\ c(2) /\ c(3) /\ ValidUtf8From(s, i + 4)
        ELSE IF b >= 241 /\ b <= 243 THEN c(1) /\ c(2) /\ c(3) /\ ValidUtf8From(s, i + 4)
        ELSE IF b = 244 THEN in2(1, 128, 143) /\ c(2) /\ c(3) /\ ValidUtf8From(s, i + 4)
        ELSE FALSE

from_utf8_ok(bytes) == ValidUtf8From(bytes, 1)

(***************************************************************************)
(* enum StatusCode, enum FragmentedMessage, enum Frame                     *)
(***************************************************************************)
Normal == 1000
ProtocolError == 1002
InvalidDataFormat == 1007

\* FragmentedMessage::Text(messages) / FragmentedMessage::Binary(messages)
FragmentedMessage(shape, messages) == [shape |-> shape, messages |-> messages]

\* The Option<FragmentedMessage> carried by Frame::Continuation.
None == [some |-> FALSE, shape |-> "", messages |-> <<>>]
Some(fm) == [some |-> TRUE, shape |-> fm.shape, messages |-> fm.messages]

\* Every Frame value is a record of the same fields; the fields a variant
\* does not have hold a fixed filler.
Continuation(opt) == [type |-> "Continuation", status |-> 0, message |-> <<>>, fragmented |-> opt]
Text(message) == [type |-> "Text", status |-> 0, message |-> message, fragmented |-> None]
Binary(message) == [type |-> "Binary", status |-> 0, message |-> message, fragmented |-> None]
Close(status_code) == [type |-> "Close", status |-> status_code, message |-> <<>>, fragmented |-> None]
Ping(message) == [type |-> "Ping", status |-> 0, message |-> message, fragmented |-> None]
Pong(message) == [type |-> "Pong", status |-> 0, message |-> message, fragmented |-> None]

(***************************************************************************)
(* impl FragmentedMessage                                                  *)
(***************************************************************************)
is_empty(fm) == fm.messages = <<>>

push(fm, message) == FragmentedMessage(fm.shape, Append(fm.messages, message))

RECURSIVE concat(_)
concat(messages) ==
    IF messages = <<>> THEN <<>>
    ELSE Head(messages) \o concat(Tail(messages))

invalid(fm) == fm.shape = "Text" /\ ~from_utf8_ok(concat(fm.messages))

(***************************************************************************)
(* Cursor reads.  A read returns [ok, value, pos]; a failed read leaves    *)
(* the position where it was.                                              *)
(***************************************************************************)
remaining(src, pos) == Len(src) - pos

\* A length too large for any buffer of the model; stands for every u64
\* value of 2^30 or more (the value is only ever compared with remaining()).
Huge == 1073741824

get_u8(src, pos) ==
    IF remaining(src, pos) < 1
    THEN [ok |-> FALSE, value |-> 0, pos |-> pos]
    ELSE [ok |-> TRUE, value |-> src[pos + 1], pos |-> pos + 1]

get_u16(src, pos) ==
    IF remaining(src, pos) < 2
    THEN [ok |-> FALSE, value |-> 0, pos |-> pos]
    ELSE [ok |-> TRUE, value |-> (src[pos + 1] * 256) + src[pos + 2], pos |-> pos + 2]

get_u64(src, pos) ==
    IF remaining(src, pos) < 8
    THEN [ok |-> FALSE, value |-> 0, pos |-> pos]
    ELSE [ok |-> TRUE,
          value |-> IF \E k \in 1..4 : src[pos + k] # 0 \/ src[pos + 5] >= 64
                    THEN Huge
                    ELSE ((((((src[pos + 5] * 256) + src[pos + 6]) * 256) + src[pos + 7]) * 256)
                          + src[pos + 8]),
          pos |-> pos + 8]

\* Frame::payload_length
payload_length(src, pos, len7) ==
    IF len7 <= 125 THEN [ok |-> TRUE, value |-> len7, pos |-> pos]
    ELSE IF len7 = 126 THEN get_u16(src, pos)
    ELSE IF len7 = 127 THEN get_u64(src, pos)
    ELSE [ok |-> FALSE, value |-> 0, pos |-> pos]

\* Frame::mask
mask(src, pos) ==
    IF remaining(src, pos) < 4
    THEN [ok |-> FALSE, value |-> <<>>, pos |-> pos]
    ELSE [ok |-> TRUE, value |-> SubSeq(src, pos + 1, pos + 4), pos |-> pos + 4]

\* decoded_message with the test of line 144 off by one
decoded_message_off_by_one(src, pos, length, key) ==
    IF remaining(src, pos) <= length
    THEN [ok |-> FALSE, value |-> <<>>, pos |-> pos]
    ELSE [ok |-> TRUE,
          value |-> [i \in 1..length |-> BitXor(src[pos + i], key[((i - 1) % 4) + 1])],
          pos |-> pos + length]

\* Frame::decoded_message
decoded_message(src, pos, length, key) ==
    IF remaining(src, pos) < length
    THEN [ok |-> FALSE, value |-> <<>>, pos |-> pos]
    ELSE [ok |-> TRUE,
          value |-> [i \in 1..length |-> BitXor(src[pos + i], key[((i - 1) % 4) + 1])],
          pos |-> pos + length]

(***************************************************************************)
(* Frame::parse_close_frame                                                *)
(***************************************************************************)
valid == {1000, 1001, 1002, 1003, 1007, 1008, 1009, 1010, 1011, 3000, 3999, 4000, 4999}

\* parse_close_frame answering a bad reason text with InvalidDataFormat
parse_close_frame_invalid_data(message) ==
    LET status_code == (message[1] * 256) + message[2]
    IN  IF status_code \notin valid THEN Close(ProtocolError)
        ELSE IF from_utf8_ok(SubSeq(message, 3, Len(message))) THEN Close(Normal)
        ELSE Close(InvalidDataFormat)

parse_close_frame(message) ==
    LET status_code == (message[1] * 256) + message[2]
    IN  IF status_code \notin valid THEN Close(ProtocolError)
        ELSE IF from_utf8_ok(SubSeq(message, 3, Len(message))) THEN Close(Normal)
        ELSE Close(ProtocolError)

(***************************************************************************)
(* Frame::parse.  The value is [ok, frame, pos, fm]: Ok(frame) or Err, the *)
(* cursor position and the tracker when the call returns.                  *)
(***************************************************************************)
NoFrame == [type |-> "Err", status |-> 0, message |-> <<>>, fragmented |-> None]

Err(pos, fm) == [ok |-> FALSE, frame |-> NoFrame, pos |-> pos, fm |-> fm]
Ok(frame, pos, fm) == [ok |-> TRUE, frame |-> frame, pos |-> pos, fm |-> fm]

\* NonFinal without the guard of line 89
NonFinalUnguarded(opcode, message, pos, fm) ==
    IF opcode = 0 \/ opcode = 1 THEN Ok(Continuation(None), pos, push(fm, message))
    ELSE IF opcode = 2
         THEN Ok(Continuation(None), pos, push(FragmentedMessage("Binary", <<>>), message))
    ELSE Ok(Close(ProtocolError), pos, fm)

\* NonFinal pushing a binary first frame without the reset of line 92
NonFinalNoReset(opcode, message, pos, fm) ==
    IF opcode = 0 /\ is_empty(fm) THEN Ok(Close(ProtocolError), pos, fm)
    ELSE IF opcode = 0 \/ opcode = 1 \/ opcode = 2
         THEN Ok(Continuation(None), pos, push(fm, message))
    ELSE Ok(Close(ProtocolError), pos, fm)

\* NonFinal resetting the tracker for a text first frame as line 92 does for binary
NonFinalTextResets(opcode, message, pos, fm) ==
    IF opcode = 0 /\ is_empty(fm) THEN Ok(Close(ProtocolError), pos, fm)
    ELSE IF opcode = 0 THEN Ok(Continuation(None), pos, push(fm, message))
    ELSE IF opcode = 1
         THEN Ok(Continuation(None), pos, push(FragmentedMessage("Text", <<>>), message))
    ELSE IF opcode = 2
         THEN Ok(Continuation(None), pos, push(FragmentedMessage("Binary", <<>>), message))
    ELSE Ok(Close(ProtocolError), pos, fm)

\* NonFinal with a default arm that does nothing (line 95 as `_ => {}`)
NonFinalIgnoresOthers(opcode, message, pos, fm) ==
    IF opcode = 0 /\ is_empty(fm) THEN Ok(Close(ProtocolError), pos, fm)
    ELSE IF opcode = 0 \/ opcode = 1 THEN Ok(Continuation(None), pos, push(fm, message))
    ELSE IF opcode = 2
         THEN Ok(Continuation(None), pos, push(FragmentedMessage("Binary", <<>>), message))
    ELSE Ok(Continuation(None), pos, fm)

\* lines 87-98: the frame is not final
NonFinal(opcode, message, pos, fm) ==
    IF opcode = 0 /\ is_empty(fm) THEN Ok(Close(ProtocolError), pos, fm)
    ELSE IF opcode = 0 \/ opcode = 1 THEN Ok(Continuation(None), pos, push(fm, message))
    ELSE IF opcode = 2
         THEN Ok(Continuation(None), pos, push(FragmentedMessage("Binary", <<>>), message))
    ELSE Ok(Close(ProtocolError), pos, fm)

\* FinalContinuation emptying the tracker when it rejects the message
FinalContinuationClears(message, pos, fm) ==
    IF is_empty(fm) THEN Ok(Close(ProtocolError), pos, fm)
    ELSE IF invalid(fm)
         THEN Ok(Close(InvalidDataFormat), pos, FragmentedMessage(fm.shape, <<>>))
    ELSE Ok(Continuation(Some(push(fm, message))), pos, push(fm, message))

\* lines 101-106: a final continuation frame
FinalContinuation(message, pos, fm) ==
    IF is_empty(fm) THEN Ok(Close(ProtocolError), pos, fm)
    ELSE IF invalid(fm) THEN Ok(Close(InvalidDataFormat), pos, fm)
    ELSE Ok(Continuation(Some(push(fm, message))), pos, push(fm, message))

\* FinalText without the UTF-8 check
FinalTextUnchecked(message, pos, fm) == Ok(Text(message), pos, fm)

\* lines 108-111: an unfragmented text frame
FinalText(message, pos, fm) ==
    IF from_utf8_ok(message) THEN Ok(Text(message), pos, fm)
    ELSE Ok(Close(InvalidDataFormat), pos, fm)

\* FinalData without the guard of line 107
FinalDataUnguarded(opcode, message, pos, fm) ==
    IF opcode = 1
    THEN IF from_utf8_ok(message) THEN Ok(Text(message), pos, fm)
         ELSE Ok(Close(InvalidDataFormat), pos, fm)
    ELSE Ok(Binary(message), pos, fm)

\* lines 107-112: a final text or binary frame
FinalData(opcode, message, pos, fm) ==
    IF ~is_empty(fm) THEN Ok(Close(ProtocolError), pos, fm)
    ELSE IF opcode = 1 THEN FinalText(message, pos, fm)
    ELSE Ok(Binary(message), pos, fm)

\* FinalClose with the range of line 114 one too wide
FinalCloseUpTo126(length, message, pos, fm) ==
    IF length = 0 THEN Ok(Close(Normal), pos, fm)
    ELSE IF length >= 2 /\ length <= 126 THEN Ok(parse_close_frame(message), pos, fm)
    ELSE Ok(Close(ProtocolError), pos, fm)

\* lines 113-114 and 117: a final close frame
FinalClose(length, message, pos, fm) ==
    IF length = 0 THEN Ok(Close(Normal), pos, fm)
    ELSE IF length >= 2 /\ length <= 125 THEN Ok(parse_close_frame(message), pos, fm)
    ELSE Ok(Close(ProtocolError), pos, fm)

\* lines 115 and 117: a final ping frame
FinalPing(length, message, pos, fm) ==
    IF length <= 125 THEN Ok(Ping(message), pos, fm)
    ELSE Ok(Close(ProtocolError), pos, fm)

\* lines 100-118: the frame is final
Final(opcode, length, message, pos, fm) ==
    IF opcode = 0 THEN FinalContinuation(message, pos, fm)
    ELSE IF opcode = 1 \/ opcode = 2 THEN FinalData(opcode, message, pos, fm)
    ELSE IF opcode = 8 THEN FinalClose(length, message, pos, fm)
    ELSE IF opcode = 9 THEN FinalPing(length, message, pos, fm)
    ELSE IF opcode = 10 THEN Ok(Pong(message), pos, fm)
    ELSE Ok(Close(ProtocolError), pos, fm)

\* HeaderViolation without the RSV test
HeaderViolationMaskOnly(rsv, masked) == ~masked

\* line 79: the header bits that end the call before anything else is read
HeaderViolation(rsv, masked) == rsv \/ ~masked

parse(src, pos0, fm) ==
    LET f == get_u8(src, pos0) IN
    IF ~f.ok THEN Err(f.pos, fm) ELSE
    LET fin == HighBit(f.value)
        rsv == RsvBits(f.value)
        opcode == LowNibble(f.value)
        s == get_u8(src, f.pos)
    IN
    IF ~s.ok THEN Err(s.pos, fm) ELSE
    LET masked == HighBit(s.value)
        len7 == Low7(s.value)
    IN
    IF HeaderViolation(rsv, masked) THEN Ok(Close(ProtocolError), s.pos, fm) ELSE
    LET pl == payload_length(src, s.pos, len7) IN
    IF ~pl.ok THEN Err(pl.pos, fm) ELSE
    LET mk == mask(src, pl.pos) IN
    IF ~mk.ok THEN Err(mk.pos, fm) ELSE
    LET msg == decoded_message(src, mk.pos, pl.value, mk.value) IN
    IF ~msg.ok THEN Err(msg.pos, fm) ELSE
    IF ~fin THEN NonFinal(opcode, msg.value, msg.pos, fm)
    ELSE Final(opcode, pl.value, msg.value, msg.pos, fm)

(***************************************************************************)
(* Frame::payload_length_response, FragmentedMessage::response and         *)
(* Frame::response.  An Option<Vec<u8>> is [some, bytes].                  *)
(***************************************************************************)
\* (payload_length as u64).to_be_bytes(), for lengths below 2^31
to_be_bytes_u64(n) ==
    <<0, 0, 0, 0, (n \div 16777216) % 256, (n \div 65536) % 256, (n \div 256) % 256, n % 256>>

\* payload_length_response with the first range of line 202 one too wide
payload_length_response_upto126(n) ==
    IF n <= 126 THEN <<n>>
    ELSE IF n <= 65535 THEN <<126, n \div 256, n % 256>>
    ELSE <<127>> \o to_be_bytes_u64(n)

payload_length_response(n) ==
    IF n <= 125 THEN <<n>>
    ELSE IF n <= 65535 THEN <<126, n \div 256, n % 256>>
    ELSE <<127>> \o to_be_bytes_u64(n)

\* FragmentedMessage::response with a first byte that lacks FIN
fragmented_response_no_fin(fm) ==
    LET message == concat(fm.messages)
    IN  <<IF fm.shape = "Text" THEN 1 ELSE 2>>
        \o payload_length_response(Len(message)) \o message

\* FragmentedMessage::response
fragmented_response(fm) ==
    LET message == concat(fm.messages)
    IN  <<IF fm.shape = "Text" THEN 129 ELSE 130>>
        \o payload_length_response(Len(message)) \o message

\* the Ping arm of Frame::response writing a ping opcode (0x9)
response_ping_as_ping(message) == <<137, Len(message) % 256>> \o message

\* lines 189-193: the Ping arm of Frame::response (message.len() as u8)
response_ping(message) == <<138, Len(message) % 256>> \o message

NoBytes == [some |-> FALSE, bytes |-> <<>>]
SomeBytes(bytes) == [some |-> TRUE, bytes |-> bytes]

\* Frame::response
response(f) ==
    LET bytes ==
            IF f.type = "Continuation" /\ f.fragmented.some
            THEN fragmented_response(f.fragmented)
            ELSE IF f.type = "Text"
            THEN <<129>> \o payload_length_response(Len(f.message)) \o f.message
            ELSE IF f.type = "Binary"
            THEN <<130>> \o payload_length_response(Len(f.message)) \o f.message
            ELSE IF f.type = "Close"
            THEN <<136, 2, f.status \div 256, f.status % 256>>
            ELSE IF f.type = "Ping" THEN response_ping(f.message)
            ELSE <<>>
    IN  IF bytes # <<>> THEN SomeBytes(bytes) ELSE NoBytes

(***************************************************************************)
(* What the peer puts on the wire.  A frame description d has the fields   *)
(* of the frame format Frame::parse reads: fin, rsv (RSV1-3 as 0..7),      *)
(* opcode, masked, enc (how the length is written), payload (the bytes     *)
(* before masking) and key (the masking key).                              *)
(***************************************************************************)
Desc(fin, rsv, opcode, masked, enc, payload, key) ==
    [fin |-> fin, rsv |-> rsv, opcode |-> opcode, masked |-> masked,
     enc |-> enc, payload |-> payload, key |-> key]

\* A well-formed client frame: no RSV bit, masked, shortest length form.
Plain(fin, opcode, payload, key) ==
    Desc(fin, 0, opcode, TRUE, IF Len(payload) <= 125 THEN "short" ELSE "u16", payload, key)

U16(n) == <<n \div 256, n % 256>>

Len7(d) ==
    IF d.enc = "short" THEN Len(d.payload)
    ELSE IF d.enc = "u16" THEN 126
    ELSE 127

ExtLen(d) ==
    LET n == Len(d.payload)
    IN  IF d.enc = "short" THEN <<>>
        ELSE IF d.enc = "u16" THEN U16(n)
        ELSE IF d.enc = "u64" THEN <<0, 0, 0, 0, 0, 0>> \o U16(n)
        ELSE <<255, 255, 255, 255, 255, 255, 255, 255>>

\* The length the length field declares (for "u64max", more than any buffer holds).
Declared(d) == IF d.enc = "u64max" THEN Huge ELSE Len(d.payload)

Wire(d) ==
    <<(IF d.fin THEN 128 ELSE 0) + (d.rsv * 16) + d.opcode,
      (IF d.masked THEN 128 ELSE 0) + Len7(d)>>
    \o ExtLen(d)
    \o (IF d.masked THEN d.key ELSE <<>>)
    \o [i \in 1..Len(d.payload) |->
           IF d.masked THEN BitXor(d.payload[i], d.key[((i - 1) % 4) + 1])
           ELSE d.payload[i]]

RECURSIVE WireAll(_)
WireAll(ds) == IF ds = <<>> THEN <<>> ELSE Wire(Head(ds)) \o WireAll(Tail(ds))

Fill(n, b) == [i \in 1..n |-> b]

(***************************************************************************)
(* The inputs of the model                                                 *)
(***************************************************************************)
\* The most chunks the tracker holds in the model.
MaxFragments == 3

Key0 == <<0, 0, 0, 0>>
Key1 == <<55, 250, 33, 61>>
Keys == {Key0, Key1}

\* Payloads of the frames that can reach the tracker: "", "a", and the two
\* bytes of U+00E9 one at a time.
FragPayloads == {<<>>, <<97>>, <<195>>, <<169>>}

\* Further text payloads: U+00E9, a lone 0xFF, "a" + a cut character, U+20AC,
\* an encoded surrogate, an overlong NUL.
TextPayloads ==
    {<<195, 169>>, <<255>>, <<97, 195>>, <<226, 130, 172>>, <<237, 160, 128>>, <<192, 128>>}

TestCodes == valid \cup {0, 999, 1004, 1005, 1006, 1012, 1015, 2999, 3001, 4001, 5000, 65535}
Reasons == {<<>>, <<97>>, <<255>>, <<195, 169>>}
ClosePayloads ==
    {U16(c) \o r : c \in TestCodes, r \in Reasons}
    \cup {<<>>, <<3>>, U16(1000) \o Fill(123, 97), U16(1000) \o Fill(124, 97)}

DataFrames == {Plain(f, o, p, k) : f \in BOOLEAN, o \in {0, 1, 2}, p \in FragPayloads, k \in Keys}
TextFrames ==
    {Plain(TRUE, o, p, Key1) : o \in {1, 2}, p \in TextPayloads}
    \cup {Plain(TRUE, 1, Fill(126, 97), Key1)}
CloseFrames ==
    {Plain(TRUE, 8, p, Key1) : p \in ClosePayloads}
    \cup {Plain(f, 8, p, Key0) : f \in BOOLEAN, p \in {<<>>, <<3>>, U16(1000), U16(1004) \o <<97>>}}
ControlFrames ==
    {Plain(f, o, p, Key1) : f \in BOOLEAN, o \in {9, 10}, p \in {<<>>, <<1, 2>>}}
    \cup {Plain(TRUE, o, p, Key1) : o \in {9, 10}, p \in {Fill(125, 97), Fill(126, 97)}}
OtherFrames ==
    {Plain(f, o, <<97>>, Key1) : f \in BOOLEAN, o \in (3..7) \cup (11..15)}
    \cup {Plain(TRUE, o, <<>>, Key0) : o \in {3, 15}}
LongFormFrames ==
    {Desc(TRUE, 0, o, TRUE, e, p, Key1) :
        o \in {0, 1, 8, 9}, e \in {"u16", "u64"}, p \in {<<>>, <<97>>}}
    \cup {Desc(TRUE, 0, 8, TRUE, e, U16(1000), Key1) : e \in {"u16", "u64"}}
BadHeaders == {<<0, FALSE>>, <<1, TRUE>>, <<6, FALSE>>}
BadHeaderFrames ==
    {Desc(f, hdr[1], o, hdr[2], "short", <<97>>, Key1) :
        f \in BOOLEAN, o \in 0..15, hdr \in BadHeaders}
    \cup {Desc(TRUE, hdr[1], o, hdr[2], e, p, Key1) :
        o \in {1, 8}, hdr \in {<<0, FALSE>>, <<2, TRUE>>, <<4, TRUE>>},
        e \in {"short", "u16", "u64"}, p \in {<<>>, U16(1000)}}

WholeFrames ==
    DataFrames \cup TextFrames \cup CloseFrames \cup ControlFrames \cup OtherFrames
    \cup LongFormFrames \cup BadHeaderFrames

\* Frames that are also sent cut short.
CutFrames ==
    {Plain(TRUE, 1, <<97, 97>>, Key1), Plain(FALSE, 0, <<97>>, Key0),
     Desc(TRUE, 0, 2, TRUE, "u16", <<97>>, Key1), Desc(TRUE, 0, 9, TRUE, "u64", <<97>>, Key1),
     Desc(TRUE, 0, 1, TRUE, "u64max", <<97>>, Key1),
     Desc(TRUE, 0, 1, FALSE, "short", <<97>>, Key1), Desc(TRUE, 1, 8, TRUE, "u16", <<97>>, Key1)}

\* Two frames in one buffer.
FirstFrames ==
    {Plain(TRUE, 1, <<97>>, Key1), Plain(TRUE, 9, <<1, 2>>, Key1),
     Plain(TRUE, 8, <<>>, Key0), Plain(TRUE, 8, <<3>>, Key0), Plain(TRUE, 3, <<97>>, Key1),
     Plain(TRUE, 0, <<97>>, Key1), Plain(TRUE, 1, <<255>>, Key1),
     Desc(TRUE, 0, 1, FALSE, "short", <<97>>, Key1), Desc(FALSE, 4, 2, TRUE, "short", <<97>>, Key1),
     Desc(TRUE, 0, 1, FALSE, "short", <<>>, Key1), Desc(TRUE, 1, 9, TRUE, "u16", <<>>, Key1)}
SecondFrames == {Plain(TRUE, 2, <<97>>, Key0), Plain(FALSE, 0, <<169>>, Key1)}

\* A fragmented message in one buffer: a first frame, at most one middle
\* frame, a last frame.
Messages ==
    LET first == {Plain(FALSE, o, p, Key1) : o \in {1, 2}, p \in FragPayloads}
        middle == {Plain(FALSE, 0, p, Key1) : p \in {<<97>>, <<169>>}}
        last == {Plain(TRUE, 0, p, Key0) : p \in FragPayloads}
    IN  {<<a, c>> : a \in first, c \in last}
        \cup {<<a, b, c>> : a \in first, b \in middle, c \in last}

\* An input is the frames the peer wrote to one buffer and the bytes of them
\* that have arrived.
Input(frames, arrived) ==
    [frames |-> frames, bytes |-> SubSeq(WireAll(frames), 1, arrived)]

Inputs ==
    {Input(<<d>>, Len(Wire(d))) : d \in WholeFrames}
    \cup UNION {{Input(<<d>>, n) : n \in 0..(Len(Wire(d)) - 1)} : d \in CutFrames}
    \cup {Input(<<d, e>>, Len(Wire(d)) + Len(Wire(e))) : d \in FirstFrames, e \in SecondFrames}
    \cup {Input(m, Len(WireAll(m))) : m \in Messages}

(***************************************************************************)
(* State                                                                   *)
(***************************************************************************)
VARIABLES
    fragmented_message,  \* the connection's tracker (&mut FragmentedMessage)
    src,                 \* the buffer under the cursor
    pos,                 \* the cursor's position
    sent,                \* the frames the peer wrote to src (<<>>: no cursor)
    results,             \* what each Frame::parse call on this cursor returned
    starts,              \* the cursor's position when each call began
    befores,             \* the tracker when each call began
    enc                  \* the encoder under test ([stage |-> "off"]: none)

vars == <<fragmented_message, src, pos, sent, results, starts, befores, enc>>

Off == [stage |-> "off"]

\* The tracker a connection starts with.  Frame::parse never leaves a
\* Binary tracker without chunks (lines 92-93), so the empty tracker is Text.
Init ==
    /\ fragmented_message = FragmentedMessage("Text", <<>>)
    /\ src = <<>>
    /\ pos = 0
    /\ sent = <<>>
    /\ results = <<>>
    /\ starts = <<>>
    /\ befores = <<>>
    /\ enc = Off

\* One call Frame::parse(&mut cursor, &mut fragmented_message).
Call(buffer, from, earlier) ==
    LET r == parse(buffer, from, fragmented_message)
    IN  /\ Len(r.fm.messages) <= MaxFragments
        /\ fragmented_message' = r.fm
        /\ pos' = r.pos
        /\ results' = Append(earlier[1], [ok |-> r.ok, frame |-> r.frame])
        /\ starts' = Append(earlier[2], from)
        /\ befores' = Append(earlier[3], fragmented_message)
        /\ UNCHANGED enc

\* The caller wraps newly arrived bytes in a cursor and calls Frame::parse.
ParseNew ==
    /\ sent = <<>>
    /\ \E in \in Inputs :
        /\ src' = in.bytes
        /\ sent' = in.frames
        /\ Call(in.bytes, 0, <<<<>>, <<>>, <<>>>>)

\* The caller calls Frame::parse again on the same cursor.
ParseNext ==
    /\ sent # <<>>
    /\ results[Len(results)].ok
    /\ Len(results) < Len(sent)
    /\ UNCHANGED <<src, sent>>
    /\ Call(src, pos, <<results, starts, befores>>)

\* The caller is done with the buffer; the tracker stays with the connection.
Release ==
    /\ sent # <<>>
    /\ src' = <<>>
    /\ pos' = 0
    /\ sent' = <<>>
    /\ results' = <<>>
    /\ starts' = <<>>
    /\ befores' = <<>>
    /\ UNCHANGED <<fragmented_message, enc>>

Next == ParseNew \/ ParseNext \/ Release

Spec == Init /\ [][Next]_vars

(***************************************************************************)
(* The last call, as the claims speak of it                                *)
(***************************************************************************)
Called == results # <<>>
calls == Len(results)
result == results[calls]
start == starts[calls]
before == befores[calls]
\* the frame the peer wrote for this call
peer == sent[calls]

\* Bytes of a whole frame: header, extended length, key, declared payload.
FrameLen(d) == 2 + Len(ExtLen(d)) + (IF d.masked THEN 4 ELSE 0) + Declared(d)

\* The call began where the peer's frame begins, and the whole frame is there.
AtBoundary == start = Len(WireAll(SubSeq(sent, 1, calls - 1)))
Arrived == AtBoundary /\ Len(src) - start >= FrameLen(peer)

\* A whole frame that is masked and has no RSV bit set reached the call.
Masked == Called /\ Arrived /\ peer.masked /\ peer.rsv = 0

\* Ok(frame), as recorded in results
Returned(f) == [ok |-> TRUE, frame |-> f]

Empty(fm) == fm.messages = <<>>

\* ds is a fragmented message: a first frame [FIN=0, text or binary], then
\* [FIN=0, continuation] frames, then a last [FIN=1, continuation] frame.
IsFragmentedMessage(ds) ==
    /\ Len(ds) >= 2
    /\ \A k \in 1..Len(ds) :
        /\ ds[k].masked /\ ds[k].rsv = 0 /\ ds[k].enc # "u64max"
        /\ ds[k].fin = (k = Len(ds))
        /\ IF k = 1 THEN ds[k].opcode \in {1, 2} ELSE ds[k].opcode = 0

Payloads(ds) == [k \in 1..Len(ds) |-> ds[k].payload]

ShapeOf(opcode) == IF opcode = 1 THEN "Text" ELSE "Binary"

(***************************************************************************)
(* C1.  From an Empty tracker, the frames of a fragmented message (first   *)
(* frame FIN=0 text or binary, middle frames FIN=0 continuation, last      *)
(* frame FIN=1 continuation) make the successive calls return              *)
(* Continuation(None) for every frame but the last and, for the last,      *)
(* Continuation(Some(m)), m of the first frame's shape with the frames'    *)
(* payloads as its chunks, in order.  Stated here for the messages the     *)
(* protocol allows: a text message is valid UTF-8 as a whole.              *)
(***************************************************************************)
C1_FragmentedMessageReassembled ==
    ( /\ Called
      /\ IsFragmentedMessage(sent)
      /\ Empty(befores[1])
      /\ (sent[1].opcode = 1 => from_utf8_ok(concat(Payloads(sent)))) )
    => \A k \in 1..calls :
          results[k] =
             IF k < Len(sent) THEN Returned(Continuation(None))
             ELSE Returned(Continuation(Some(
                     FragmentedMessage(ShapeOf(sent[1].opcode), Payloads(sent)))))

(***************************************************************************)
(* C2.  When Frame::parse returns Continuation(Some(reassembled)) the      *)
(* tracker is Empty: it keeps none of the chunks it handed out.            *)
(***************************************************************************)
C2_TrackerDrained ==
    ( /\ Called
      /\ result.ok
      /\ result.frame.type = "Continuation"
      /\ result.frame.fragmented.some )
    => Empty(fragmented_message)

(***************************************************************************)
(* C3 as claimed.  A whole masked FIN=1 text frame whose payload is not    *)
(* valid UTF-8 always decodes to Close(InvalidDataFormat).                 *)
(***************************************************************************)
InvalidTextFrame ==
    Masked /\ peer.fin /\ peer.opcode = 1 /\ ~from_utf8_ok(peer.payload)

C3_InvalidTextAlwaysInvalidDataFormat ==
    InvalidTextFrame => result = Returned(Close(InvalidDataFormat))

(***************************************************************************)
(* C3 as amended.  A whole masked FIN=1 text frame whose payload is not    *)
(* valid UTF-8 decodes to Close(InvalidDataFormat) when the tracker is     *)
(* Empty and to Close(ProtocolError) when it is not, so never to Text; and *)
(* every Text that Frame::parse returns carries valid UTF-8.               *)
(***************************************************************************)
C3_InvalidTextNeverText ==
    /\ InvalidTextFrame =>
          result = Returned(Close(IF Empty(before) THEN InvalidDataFormat ELSE ProtocolError))
    /\ \A k \in 1..Len(results) :
          results[k].frame.type = "Text" => from_utf8_ok(results[k].frame.message)

C3_Witness ==
    /\ InvalidTextFrame
    /\ Empty(before)
    /\ result = Returned(Close(InvalidDataFormat))

(***************************************************************************)
(* C4.  A whole masked continuation frame (opcode 0x0, FIN=1 or FIN=0)     *)
(* that arrives while the tracker is Empty yields Close(ProtocolError) and *)
(* leaves the tracker Empty.                                               *)
(***************************************************************************)
C4_ContinuationOnEmptyTracker ==
    (Masked /\ peer.opcode = 0 /\ Empty(before))
    => /\ result = Returned(Close(ProtocolError))
       /\ Empty(fragmented_message)

C4_Witness ==
    /\ Masked /\ peer.opcode = 0 /\ ~peer.fin /\ Empty(before)
    /\ result = Returned(Close(ProtocolError))

(***************************************************************************)
(* C5.  A whole masked FIN=1 frame with opcode 0x1 or 0x2 that arrives     *)
(* while the tracker is not Empty yields Close(ProtocolError), whatever    *)
(* its payload.                                                            *)
(***************************************************************************)
C5_UnfragmentedDuringMessage ==
    (Masked /\ peer.fin /\ peer.opcode \in {1, 2} /\ ~Empty(before))
    => result = Returned(Close(ProtocolError))

C5_Witness ==
    /\ Masked /\ peer.fin /\ peer.opcode = 1 /\ ~Empty(before)
    /\ from_utf8_ok(peer.payload) /\ Len(peer.payload) > 0
    /\ result = Returned(Close(ProtocolError))

(***************************************************************************)
(* C6.  A frame whose two header bytes have arrived and whose MASK bit is  *)
(* 0, or which has an RSV bit set, decodes to Ok(Close(ProtocolError)),    *)
(* whatever its opcode, FIN, length field and the tracker.                 *)
(***************************************************************************)
HeaderArrived == Called /\ AtBoundary /\ Len(src) - start >= 2

C6_BadHeaderIsProtocolError ==
    (HeaderArrived /\ (~peer.masked \/ peer.rsv # 0))
    => result = Returned(Close(ProtocolError))

C6_Witness ==
    /\ HeaderArrived /\ peer.masked /\ peer.rsv # 0
    /\ ~peer.fin /\ peer.opcode = 2 /\ ~Empty(before)
    /\ result = Returned(Close(ProtocolError))

(***************************************************************************)
(* C7.  Whenever Frame::parse returns Ok, the cursor has advanced by the   *)
(* length of one full frame: 2 header bytes + the extended length bytes +  *)
(* 4 mask bytes + the declared payload length.                             *)
(***************************************************************************)
C7_CursorAtFrameEnd ==
    (Called /\ AtBoundary /\ result.ok)
    => pos = start + 2 + Len(ExtLen(peer)) + 4 + Declared(peer)

CloseFrame == Masked /\ peer.fin /\ peer.opcode = 8

C9_CloseFrameLength ==
    /\ (CloseFrame /\ Len(peer.payload) = 0) => result = Returned(Close(Normal))
    /\ (CloseFrame /\ (Len(peer.payload) = 1 \/ Len(peer.payload) > 125))
          => result = Returned(Close(ProtocolError))

C9_Witness ==
    /\ CloseFrame /\ Len(peer.payload) > 125 /\ ~Empty(before)
    /\ result = Returned(Close(ProtocolError))

(***************************************************************************)
(* C10.  A whole masked FIN=1 close frame with payload length in [2,125]   *)
(* yields Close(Normal) exactly when its first two payload bytes, as a     *)
(* big-endian 16-bit integer, are one of 1000, 1001, 1002, 1003, 1007,     *)
(* 1008, 1009, 1010, 1011, 3000, 3999, 4000, 4999 and the bytes after them *)
(* are valid UTF-8; otherwise it yields Close(ProtocolError).  The status  *)
(* returned is one of these two, whatever code the peer sent.              *)
(***************************************************************************)
PeerCode == (peer.payload[1] * 256) + peer.payload[2]
PeerReason == SubSeq(peer.payload, 3, Len(peer.payload))
Acceptable ==
    /\ PeerCode \in {1000, 1001, 1002, 1003, 1007, 1008, 1009, 1010, 1011,
                     3000, 3999, 4000, 4999}
    /\ from_utf8_ok(PeerReason)

C10_CloseCodeValidation ==
    (CloseFrame /\ Len(peer.payload) >= 2 /\ Len(peer.payload) <= 125)
    => result = Returned(Close(IF Acceptable THEN Normal ELSE ProtocolError))

C10_Witness ==
    /\ CloseFrame /\ Len(peer.payload) = 125
    /\ PeerCode = 1000
    /\ result = Returned(Close(Normal))

(***************************************************************************)
(* C14.  Every Ping and every Pong that Frame::parse returns carries a     *)
(* payload of at most 125 bytes.                                           *)
(***************************************************************************)
C14_ControlPayloadAtMost125 ==
    \A k \in 1..Len(results) :
        results[k].frame.type \in {"Ping", "Pong"} => Len(results[k].frame.message) <= 125

(***************************************************************************)
(* C15.  A whole masked FIN=0 frame with opcode 0x2, in any tracker state, *)
(* returns Continuation(None) and leaves the tracker Binary with that      *)
(* frame's payload as its only chunk.                                      *)
(***************************************************************************)
C15_BinaryFirstFrameResets ==
    (Masked /\ ~peer.fin /\ peer.opcode = 2)
    => /\ result = Returned(Continuation(None))
       /\ fragmented_message = FragmentedMessage("Binary", <<peer.payload>>)

C15_Witness ==
    /\ Masked /\ ~peer.fin /\ peer.opcode = 2
    /\ before.shape = "Text" /\ Len(before.messages) = 2
    /\ fragmented_message = FragmentedMessage("Binary", <<peer.payload>>)

(***************************************************************************)
(* C16.  A whole masked FIN=0 frame with opcode 0x1, in any tracker state, *)
(* returns Continuation(None) and is appended to the tracker, which keeps  *)
(* its shape and its earlier chunks.                                       *)
(***************************************************************************)
C16_TextFrameAppended ==
    (Masked /\ ~peer.fin /\ peer.opcode = 1)
    => /\ result = Returned(Continuation(None))
       /\ fragmented_message.shape = before.shape
       /\ fragmented_message.messages = Append(before.messages, peer.payload)

C16_Witness ==
    /\ Masked /\ ~peer.fin /\ peer.opcode = 1
    /\ before.shape = "Binary" /\ Len(before.messages) = 2
    /\ fragmented_message.shape = "Binary" /\ Len(fragmented_message.messages) = 3

(***************************************************************************)
(* C17.  A whole masked FIN=0 frame whose opcode is not 0x0, 0x1 or 0x2,   *)
(* and a whole masked FIN=1 frame with a reserved opcode (0x3-0x7,         *)
(* 0xB-0xF), yield Close(ProtocolError) in every tracker state.            *)
(***************************************************************************)
C17_OtherOpcodesRejected ==
    ( /\ Masked
      /\ \/ ~peer.fin /\ peer.opcode \notin {0, 1, 2}
         \/ peer.fin /\ peer.opcode \in (3..7) \cup (11..15) )
    => result = Returned(Close(ProtocolError))

C17_Witness ==
    /\ Masked /\ ~peer.fin /\ peer.opcode = 9 /\ ~Empty(before)
    /\ result = Returned(Close(ProtocolError))

(***************************************************************************)
(* C18.  A call that returns an error, or Close, Text, Binary, Ping or     *)
(* Pong, leaves the tracker as it was: the tracker changes only when       *)
(* Frame::parse returns a Continuation.                                    *)
(***************************************************************************)
C18_TrackerChangesOnlyOnContinuation ==
    (Called /\ result.frame.type # "Continuation") => fragmented_message = before

C18_Witness ==
    /\ Masked /\ peer.fin /\ peer.opcode = 9 /\ Len(before.messages) = 2
    /\ result = Returned(Ping(peer.payload))
    /\ fragmented_message = before

(***************************************************************************)
(* C19.  Every reassembled text message Continuation(Some(Text(chunks)))   *)
(* is valid UTF-8 as a whole, and a fragmented text message that is not    *)
(* yields Close(InvalidDataFormat) on its last frame.                      *)
(***************************************************************************)
LastTextFrame ==
    Masked /\ peer.fin /\ peer.opcode = 0 /\ before.shape = "Text" /\ ~Empty(before)

WholeText == concat(before.messages) \o peer.payload

C19_ReassembledTextIsUtf8 ==
    /\ ( /\ Called
         /\ result.frame.type = "Continuation"
         /\ result.frame.fragmented.some
         /\ result.frame.fragmented.shape = "Text" )
       => from_utf8_ok(concat(result.frame.fragmented.messages))
    /\ (LastTextFrame /\ ~from_utf8_ok(WholeText))
       => result = Returned(Close(InvalidDataFormat))

(***************************************************************************)
(* C20.  The last frame of a fragmented text message that is valid UTF-8   *)
(* as a whole yields Continuation(Some(Text(..))) with all its chunks,     *)
(* wherever the fragments were cut.                                        *)
(***************************************************************************)
C20_ValidTextAlwaysDelivered ==
    (LastTextFrame /\ from_utf8_ok(WholeText))
    => result = Returned(Continuation(Some(
          FragmentedMessage("Text", Append(before.messages, peer.payload)))))

(***************************************************************************)
(* The encoder on its own: Frame::response applied to a logical unit, the  *)
(* bytes echoed by a client (MASK bit set, payload masked with a key) and  *)
(* decoded again by Frame::parse with an Empty tracker.                    *)
(***************************************************************************)
Key2 == <<255, 255, 255, 255>>

Trackers ==
    {FragmentedMessage(sh, ms) :
        sh \in {"Text", "Binary"},
        ms \in {<<>>, <<<<>>>>, <<<<97>>>>, <<<<97>>, <<195>>, <<169>>>>, <<Fill(126, 97)>>}}

Units ==
    {Text(p) : p \in {<<>>, <<97>>, <<195, 169>>, Fill(125, 97), Fill(126, 97)}}
    \cup {Binary(p) : p \in {<<>>, <<255>>, Fill(125, 0), Fill(126, 0)}}
    \cup {Close(c) : c \in {Normal, ProtocolError, InvalidDataFormat}}
    \cup {Ping(p) : p \in {<<>>, <<1, 2>>, <<97>>, <<255, 0>>, Fill(125, 97)}}
    \cup {Pong(p) : p \in {<<>>, <<1, 2>>, Fill(126, 97)}}
    \cup {Continuation(None)}
    \cup {Continuation(Some(fm)) : fm \in Trackers}

\* What a client does to echo a server frame: it sets the MASK bit, puts the
\* key after the length field and masks the payload.
Echo(bytes, key) ==
    LET len7 == Low7(bytes[2])
        ext == IF len7 = 126 THEN 2 ELSE IF len7 = 127 THEN 8 ELSE 0
        n == Len(bytes) - (2 + ext)
    IN  <<bytes[1], bytes[2] + 128>>
        \o SubSeq(bytes, 3, 2 + ext)
        \o key
        \o [i \in 1..n |-> BitXor(bytes[2 + ext + i], key[((i - 1) % 4) + 1])]

NoCursor ==
    /\ fragmented_message = FragmentedMessage("Text", <<>>)
    /\ src = <<>>
    /\ pos = 0
    /\ sent = <<>>
    /\ results = <<>>
    /\ starts = <<>>
    /\ befores = <<>>

decoder == <<fragmented_message, src, pos, sent, results, starts, befores>>

InitResponse ==
    /\ NoCursor
    /\ \E u \in Units :
          enc = [stage |-> "unit", unit |-> u, wire |-> NoBytes, echo |-> <<>>,
                 decoded |-> [ok |-> FALSE, frame |-> NoFrame]]

\* frame.response()
Respond ==
    /\ enc.stage = "unit"
    /\ enc' = [enc EXCEPT !.stage = "wire", !.wire = response(enc.unit)]
    /\ UNCHANGED decoder

ClientEcho ==
    /\ enc.stage = "wire"
    /\ enc.wire.some
    /\ \E key \in Keys \cup {Key2} :
          enc' = [enc EXCEPT !.stage = "echo", !.echo = Echo(enc.wire.bytes, key)]
    /\ UNCHANGED decoder

\* Frame::parse on the echoed bytes
Decode ==
    /\ enc.stage = "echo"
    /\ LET r == parse(enc.echo, 0, fragmented_message)
       IN  enc' = [enc EXCEPT !.stage = "decoded",
                              !.decoded = [ok |-> r.ok, frame |-> r.frame]]
    /\ UNCHANGED decoder

NextResponse == Respond \/ ClientEcho \/ Decode

SpecResponse == InitResponse /\ [][NextResponse]_vars

(***************************************************************************)
(* The length field on its own: payload_length_response(L), read back by   *)
(* payload_length from the bytes after the length byte.                    *)
(***************************************************************************)
Lengths ==
    (0..130) \cup {255, 256, 65534, 65535, 65536, 65537, 16777216, 1073741823}

InitLength ==
    /\ NoCursor
    /\ \E n \in Lengths :
          enc = [stage |-> "length", length |-> n, info |-> <<>>,
                 read |-> [ok |-> FALSE, value |-> 0, pos |-> 0]]

EncodeLength ==
    /\ enc.stage = "length"
    /\ enc' = [enc EXCEPT !.stage = "info", !.info = payload_length_response(enc.length)]
    /\ UNCHANGED decoder

DecodeLength ==
    /\ enc.stage = "info"
    /\ enc' = [enc EXCEPT !.stage = "read",
                          !.read = payload_length(Tail(enc.info), 0, Low7(enc.info[1]))]
    /\ UNCHANGED decoder

NextLength == EncodeLength \/ DecodeLength

SpecLength == InitLength /\ [][NextLength]_vars

(***************************************************************************)
(* C11 as claimed.  Ping(p), encoded by Frame::response, echoed by a       *)
(* client under any key and decoded by Frame::parse, yields Ping(p).       *)
(***************************************************************************)
PingEchoed == enc.stage = "decoded" /\ enc.unit.type = "Ping"

C11_PingRoundTrip ==
    PingEchoed => enc.decoded = Returned(Ping(enc.unit.message))

(***************************************************************************)
(* C11 as amended.  Ping(p), p of at most 125 bytes, encoded by            *)
(* Frame::response, echoed by a client under any key and decoded by        *)
(* Frame::parse, yields Pong(p): the bytes Frame::response writes for a    *)
(* Ping are the pong frame (opcode 0xA) that answers it.                   *)
(***************************************************************************)
C11_PingAnsweredByPong ==
    PingEchoed => enc.decoded = Returned(Pong(enc.unit.message))

C11_Witness ==
    /\ PingEchoed
    /\ enc.unit.message = <<1, 2>>
    /\ SubSeq(enc.echo, 3, 6) = Key1
    /\ enc.decoded = Returned(Pong(<<1, 2>>))

(***************************************************************************)
(* C12.  For every length L the bytes payload_length_response(L) writes    *)
(* are one byte L for L <= 125, 126 and L as 16 bits big-endian for        *)
(* 126..65535, 127 and L as 64 bits big-endian above, and payload_length   *)
(* reads L back from them, consuming exactly the bytes after the first.    *)
(***************************************************************************)
C12_LengthRoundTrip ==
    enc.stage = "read"
    => /\ enc.read = [ok |-> TRUE, value |-> enc.length, pos |-> Len(enc.info) - 1]
       /\ enc.info[1] = IF enc.length <= 125 THEN enc.length
                        ELSE IF enc.length <= 65535 THEN 126 ELSE 127
       /\ Len(enc.info) = IF enc.length <= 125 THEN 1
                          ELSE IF enc.length <= 65535 THEN 3 ELSE 9

C12_Witness ==
    /\ enc.stage = "read"
    /\ enc.length = 65536
    /\ enc.info = <<127, 0, 0, 0, 0, 0, 1, 0, 0>>
    /\ enc.read.value = 65536

(***************************************************************************)
(* C13.  Frame::response returns None exactly for Continuation(None) and   *)
(* Pong; for every other logical unit, an empty payload included, it       *)
(* returns Some(bytes) whose first byte has FIN=1 and whose second byte    *)
(* has MASK=0.                                                             *)
(***************************************************************************)
Responded == enc.stage \in {"wire", "echo", "decoded"}

C13_ResponseNoneExactly ==
    Responded
    => /\ ~enc.wire.some <=>
             \/ enc.unit.type = "Pong"
             \/ enc.unit.type = "Continuation" /\ ~enc.unit.fragmented.some
       /\ enc.wire.some =>
             /\ Len(enc.wire.bytes) >= 2
             /\ HighBit(enc.wire.bytes[1])
             /\ ~HighBit(enc.wire.bytes[2])

C13_Witness ==
    /\ Responded
    /\ enc.unit = Continuation(Some(FragmentedMessage("Text", <<>>)))
    /\ enc.wire = SomeBytes(<<129, 0>>)

====
